---- MODULE Spec2Model ----
(***************************************************************************)
(* A model of the Hub controller of black-duck-radar                       *)
(* (src/js/background/controllers/hub.js): the HTTP transport, the HATEOAS *)
(* relation resolver, the graph traversal operations built on it and the   *)
(* session operations.                                                     *)
(*                                                                         *)
(* JavaScript values are tagged records.  A string is a sequence of        *)
(* tokens, so that startsWith('/'), template literals and URL parsing are   *)
(* computed rather than assumed.  A call of a Hub method ends in one of    *)
(* three ways, which the model keeps apart: the method throws before it    *)
(* returns ("thrown"), or it returns a promise that is later "resolved" or *)
(* "rejected".                                                             *)
(***************************************************************************)
EXTENDS Integers, Sequences, FiniteSets, TLC

(***************************************************************************)
(* Bounds of the model.                                                    *)
(***************************************************************************)
MaxItems == 2     \* longest items list a server reply carries
MaxFanout == 2    \* longest projectVersions argument / references list

(***************************************************************************)
(* JavaScript values.                                                      *)
(***************************************************************************)
Undefined == [t |-> "undefined"]
Null == [t |-> "null"]
Str(s) == [t |-> "string", s |-> s]
Num(n) == [t |-> "number", n |-> n]
Arr(a) == [t |-> "array", a |-> a]
Obj(f) == [t |-> "object", f |-> f]
Bool(b) == [t |-> "boolean", b |-> b]

EmptyString == Str(<< >>)

\* ToBoolean: the test of `x ? a : b`, `if (x)`, `x || y`, Boolean(x)
Truthy(v) ==
    /\ v.t \notin {"undefined", "null"}
    /\ v.t = "string" => v.s # << >>
    /\ v.t = "number" => v.n # 0
    /\ v.t = "boolean" => v.b

\* Property read v.key; reading a property of undefined or null throws,
\* which the callers test with IsNullish before they read.
IsNullish(v) == v.t \in {"undefined", "null"}

GetProp(v, key) ==
    IF v.t = "object" /\ key \in DOMAIN v.f THEN v.f[key] ELSE Undefined

\* Object.assign(v, {key: val}) and v.key = val on an object
SetProp(v, key, val) ==
    Obj([k \in DOMAIN v.f \cup {key} |-> IF k = key THEN val ELSE v.f[k]])

TypeError(msg) == [t |-> "error", name |-> "TypeError", message |-> msg]
Error(msg) == [t |-> "error", name |-> "Error", message |-> msg]

\* new Error(x): the message is String(x), and '' when x is undefined
NewError(x) == Error(IF x = Undefined THEN EmptyString ELSE x)

(***************************************************************************)
(* How a call ends.                                                        *)
(***************************************************************************)
Pending == [k |-> "pending"]
Resolved(v) == [k |-> "resolved", v |-> v]
Rejected(e) == [k |-> "rejected", v |-> e]
Thrown(e) == [k |-> "thrown", v |-> e]

\* An async function turns an exception thrown in its body into a rejection
\* of the promise it returns.
Async(c) == IF c.k = "thrown" THEN Rejected(c.v) ELSE c

\* promise.catch(() => null)
CatchNull(c) == IF c.k = "rejected" THEN Resolved(Null) ELSE c

(***************************************************************************)
(* URLs.  An absolute URL string is <<"https://", host, path tokens...>>,  *)
(* a root-relative one starts with the token "/".                          *)
(***************************************************************************)
HubHost == "hub.example.com"
AbsUrl(path) == Str(<<"https://", HubHost, "/", path>>)
RelUrl(path) == Str(<<"/", path>>)
Malformed == Str(<<"not a url">>)

\* new URL(s) throws a TypeError unless s parses as an absolute URL
IsValidURL(v) == v.t = "string" /\ Len(v.s) >= 2 /\ v.s[1] = "https://"

NewURL(v) ==
    [origin |-> SubSeq(v.s, 1, 2),
     pathname |-> IF Len(v.s) > 2 THEN SubSeq(v.s, 3, Len(v.s)) ELSE <<"/">>,
     search |-> << >>]

StartsWithSlash(v) == v.s # << >> /\ v.s[1] = "/"

(***************************************************************************)
(* State.                                                                  *)
(***************************************************************************)
VARIABLES
    hubOrigin,   \* the store's 'hubOrigin' entry, read by getOrigin
    op,          \* the Hub method that was called, with its arguments
    pc,          \* where that call stands: idle, permission, fetching, fanout, done
    permission,  \* Permissions.requestUrl: none, pending, granted, denied
    netlog,      \* the requests handed to the global fetch(), in call order
    response,    \* the reply the last settled Hub.fetch received
    fetched,     \* how that Hub.fetch ended
    inner,       \* how the call underneath ended (getRelation, getCurrentUser);
                 \* in getMatchingBOMComponents, the components lists by position
    slots,       \* fan-out: how each mapped promise stands, by input position
    outcome      \* how the call ended

vars == <<hubOrigin, op, pc, permission, netlog, response, fetched, inner,
          slots, outcome>>

NoReply == [t |-> "none"]

(***************************************************************************)
(* Server replies.  A fetch() either rejects (network error) or resolves   *)
(* to a response whose body may or may not be JSON.                        *)
(***************************************************************************)
NetErr == [t |-> "neterr"]
Invalid == [t |-> "invalid"]
Response(ok, body) == [t |-> "response", ok |-> ok, body |-> body]

SeqsUpTo(S, n) == UNION {[1..k -> S] : k \in 0..n}

ErrorBody == Obj([errorMessage |-> Str(<<"Access denied">>)])
ErrorBodyNoMessage == Obj([errorCode |-> Str(<<"E42">>)])
Paged(items) == Obj([totalCount |-> Num(Len(items)), items |-> Arr(items)])

\* every reply with one of the given bodies
RepliesWith(bodies) ==
    {NetErr} \cup {Response(ok, b) : ok \in BOOLEAN, b \in bodies}

(***************************************************************************)
(* HTTP transport.                                                         *)
(***************************************************************************)
Origins ==
    {Undefined, EmptyString, Str(<<"https://", HubHost>>), Str(<<HubHost>>)}

getOrigin == IF Truthy(hubOrigin) THEN hubOrigin ELSE EmptyString

RECURSIVE AppendAll(_, _)
AppendAll(search, queryMap) ==
    IF queryMap = << >> THEN search
    ELSE AppendAll(Append(search, Head(queryMap)), Tail(queryMap))

\* Thrown(TypeError) or Resolved(url): getRequestUrl is a plain function
getRequestUrl(baseUrl, queryMap) ==
    IF baseUrl.t # "string"
    THEN Thrown(TypeError(Str(<<"baseUrl.startsWith is not a function">>)))
    ELSE IF StartsWithSlash(baseUrl)
    THEN IF IsValidURL(getOrigin)
         THEN Resolved([NewURL(getOrigin) EXCEPT
                            !.pathname = baseUrl.s,
                            !.search = AppendAll(<< >>, queryMap)])
         ELSE Thrown(TypeError(Str(<<"Invalid URL">>)))
    ELSE IF IsValidURL(baseUrl)
    THEN Resolved([NewURL(baseUrl) EXCEPT !.search = AppendAll(<< >>, queryMap)])
    ELSE Thrown(TypeError(Str(<<"Invalid URL">>)))

NoOpts == [headers |-> Undefined, body |-> Undefined]

\* The request Hub.fetch hands to the global fetch(): Object.assign of the
\* credentials, the method and the caller's fetchOpts.
Request(method, url, fetchOpts) ==
    [method |-> method, url |-> url, credentials |-> "include",
     headers |-> fetchOpts.headers, body |-> fetchOpts.body]

\* get and post are plain functions: what getRequestUrl throws, they throw;
\* otherwise Hub.fetch runs up to its first await, which issues the request.
get(baseUrl, queryMap, fetchOpts) ==
    LET url == getRequestUrl(baseUrl, queryMap) IN
    IF url.k = "thrown" THEN url
    ELSE [k |-> "request", v |-> Request("GET", url.v, fetchOpts)]

post(baseUrl, queryMap, fetchOpts) ==
    LET url == getRequestUrl(baseUrl, queryMap) IN
    IF url.k = "thrown" THEN url
    ELSE [k |-> "request", v |-> Request("POST", url.v, fetchOpts)]

\* response.json().catch(() => null)
json(reply) == IF reply.body = Invalid THEN Null ELSE reply.body

\* Mutant of fetch: response.json() without its catch, so that a body that
\* is not JSON rejects whatever the status
fetchWithoutJsonCatch(reply) ==
    IF reply = NetErr
    THEN Rejected(TypeError(Str(<<"Failed to fetch">>)))
    ELSE IF reply.body = Invalid
    THEN Rejected(Error(Str(<<"Unexpected token in JSON">>)))
    ELSE IF ~reply.ok
    THEN IF IsNullish(reply.body)
         THEN Rejected(TypeError(Str(<<"Cannot read property 'errorMessage' of null">>)))
         ELSE Rejected(NewError(GetProp(reply.body, "errorMessage")))
    ELSE Resolved(reply.body)

\* Hub.fetch from the moment the global fetch() settles with `reply`
fetch(reply) ==
    IF reply = NetErr
    THEN Rejected(TypeError(Str(<<"Failed to fetch">>)))
    ELSE LET body == json(reply) IN
         IF ~reply.ok
         THEN IF IsNullish(body)
              THEN Rejected(TypeError(Str(<<"Cannot read property 'errorMessage' of null">>)))
              ELSE Rejected(NewError(GetProp(body, "errorMessage")))
         ELSE Resolved(body)

(***************************************************************************)
(* Resources and their links (HateoasModel).                               *)
(***************************************************************************)
Resource(name, links) == Obj([name |-> Str(<<name>>), links |-> links])

NoLinks == [r \in {"self"} |-> <<AbsUrl("self")>>]
Links(relationship, urls) == [r \in {relationship} |-> urls]

\* the link collections a resource may carry for one relation
LinkChoices(relationship) ==
    {NoLinks,
     Links(relationship, << >>),
     Links(relationship, <<AbsUrl(relationship)>>),
     Links(relationship, <<AbsUrl(relationship), AbsUrl("other")>>),
     Links(relationship, <<RelUrl(relationship)>>),
     Links(relationship, <<Malformed>>)}

HasRelation(model, relationship) ==
    /\ relationship \in DOMAIN model.f.links
    /\ model.f.links[relationship] # << >>

getFirstLink(model, relationship) ==
    IF HasRelation(model, relationship)
    THEN model.f.links[relationship][1]
    ELSE Null

(***************************************************************************)
(* Relation resolver.                                                      *)
(***************************************************************************)
PageLimit == <<"limit", "10000">>

\* getRelation up to the point where it returns its promise or throws
getRelationCall(model, relationship) ==
    get(getFirstLink(model, relationship), <<PageLimit>>, NoOpts)

\* the promise getRelation returned, once its Hub.fetch has settled
getRelationSettled(fetchResult) == CatchNull(fetchResult)

\* Mutant of getListRelationResult: the response itself instead of its items
getListRelationResultWhole(rel) ==
    IF rel.k # "resolved" THEN Async(rel)
    ELSE IF Truthy(rel.v) THEN Resolved(rel.v)
    ELSE Resolved(Arr(<< >>))

\* getListRelation after its await of getRelation
getListRelationResult(rel) ==
    IF rel.k # "resolved" THEN Async(rel)
    ELSE IF Truthy(rel.v) THEN Resolved(GetProp(rel.v, "items"))
    ELSE Resolved(Arr(<< >>))

(***************************************************************************)
(* Calls.  Begin starts a call whose synchronous part ended with `c`:      *)
(* either it threw (the call is over, with `under` the call underneath and *)
(* `ended` the call itself), or it issued one request and waits for it.    *)
(***************************************************************************)
Idle == pc = "idle"

Begin(name, args, c, under, ended) ==
    /\ Idle
    /\ op' = [name |-> name, args |-> args]
    /\ IF c.k = "request"
       THEN /\ netlog' = Append(netlog, c.v)
            /\ pc' = "fetching"
            /\ inner' = Pending
            /\ outcome' = Pending
       ELSE /\ netlog' = netlog
            /\ pc' = "done"
            /\ inner' = under
            /\ outcome' = ended
    /\ UNCHANGED <<hubOrigin, permission, response, fetched, slots>>

\* The request of call `name` settles with `reply`.
Settle(name, reply, under, ended) ==
    /\ op.name = name
    /\ pc = "fetching"
    /\ response' = reply
    /\ fetched' = fetch(reply)
    /\ inner' = under
    /\ outcome' = ended
    /\ pc' = "done"
    /\ UNCHANGED <<hubOrigin, op, permission, netlog, slots>>

(***************************************************************************)
(* Relation resolver.                                                      *)
(***************************************************************************)
RiskProfile == Obj([categories |-> Str(<<"HIGH">>)])
PolicyRule(name) == Obj([name |-> Str(<<name>>)])
PolicyRules == {PolicyRule("no-gpl"), PolicyRule("no-critical")}

ObjectBodies(obj) ==
    {Invalid, Null, Num(0), ErrorBody, ErrorBodyNoMessage, obj}
ListBodies(universe) ==
    {Invalid, Null, Num(0), ErrorBody}
        \cup {Paged(l) : l \in SeqsUpTo(universe, MaxItems)}

getRelation(model, relationship) ==
    LET c == getRelationCall(model, relationship) IN
    Begin("getRelation", <<model, relationship>>, c, c, c)

getRelationSettle(reply) ==
    LET rel == getRelationSettled(fetch(reply)) IN
    Settle("getRelation", reply, rel, rel)

getListRelation(model, relationship) ==
    LET c == getRelationCall(model, relationship) IN
    Begin("getListRelation", <<model, relationship>>, c, c,
          getListRelationResult(c))

getListRelationSettle(reply) ==
    LET rel == getRelationSettled(fetch(reply)) IN
    Settle("getListRelation", reply, rel, getListRelationResult(rel))

(***************************************************************************)
(* Session operations.                                                     *)
(***************************************************************************)
Path(p) == Str(<<"/", p>>)

NoOriginError == Error(Str(<<"No Hub origin saved">>))
PermissionDenied == Error(Str(<<"Permission not granted">>))

Credentials ==
    {[username |-> Str(<<"sysadmin">>), password |-> Str(<<"blackduck">>)],
     [username |-> Str(<<"guest">>), password |-> EmptyString]}

LoginOpts(username, password) ==
    [headers |-> Obj([ContentType |->
                 Str(<<"application/x-www-form-urlencoded; charset=UTF-8">>)]),
     body |-> Str(<<"j_username=">> \o username.s
                    \o <<"&j_password=">> \o password.s)]

\* Mutant of login: no check of the origin
loginWithoutOriginCheck(username, password) ==
    /\ pc = "idle"
    /\ op' = [name |-> "login", args |-> <<username, password>>]
    /\ outcome' = Pending
    /\ pc' = "permission"
    /\ permission' = "pending"
    /\ UNCHANGED <<hubOrigin, netlog, response, fetched, inner, slots>>

\* login up to its first await: the origin check, then the permission request
login(username, password) ==
    /\ Idle
    /\ op' = [name |-> "login", args |-> <<username, password>>]
    /\ IF ~Truthy(getOrigin)
       THEN /\ outcome' = Rejected(NoOriginError)
            /\ pc' = "done"
            /\ permission' = permission
       ELSE /\ outcome' = Pending
            /\ pc' = "permission"
            /\ permission' = "pending"
    /\ UNCHANGED <<hubOrigin, netlog, response, fetched, inner, slots>>

\* Mutant of loginAfterPermission: the permission request is not awaited,
\* so its failure does not stop the POST
loginIgnoringPermission(granted) ==
    /\ op.name = "login"
    /\ pc = "permission"
    /\ permission' = IF granted THEN "granted" ELSE "denied"
    /\ LET c == post(Str(<<"/", "j_spring_security_check">>), << >>,
                     [headers |-> Undefined, body |-> Undefined]) IN
       IF c.k = "request"
       THEN /\ netlog' = Append(netlog, c.v)
            /\ pc' = "fetching"
            /\ outcome' = Pending
       ELSE /\ netlog' = netlog
            /\ pc' = "done"
            /\ outcome' = Async(c)
    /\ UNCHANGED <<hubOrigin, op, response, fetched, inner, slots>>

\* login from the moment Permissions.requestUrl(origin) settles
loginAfterPermission(granted) ==
    /\ op.name = "login"
    /\ pc = "permission"
    /\ IF ~granted
       THEN /\ permission' = "denied"
            /\ outcome' = Rejected(PermissionDenied)
            /\ pc' = "done"
            /\ netlog' = netlog
       ELSE LET c == post(Path("j_spring_security_check"), << >>,
                          LoginOpts(op.args[1], op.args[2])) IN
            /\ permission' = "granted"
            /\ IF c.k = "request"
               THEN /\ netlog' = Append(netlog, c.v)
                    /\ pc' = "fetching"
                    /\ outcome' = Pending
               ELSE /\ netlog' = netlog
                    /\ pc' = "done"
                    /\ outcome' = Async(c)
    /\ UNCHANGED <<hubOrigin, op, response, fetched, inner, slots>>

loginSettle(reply) == Settle("login", reply, inner, fetch(reply))

logout ==
    LET c == get(Path("j_spring_security_logout"), << >>, NoOpts) IN
    Begin("logout", << >>, c, Pending, c)

logoutSettle(reply) == Settle("logout", reply, inner, fetch(reply))

CurrentUser == Obj([userName |-> Str(<<"sysadmin">>)])

getCurrentUserCall == get(Path("api/v1/currentuser"), << >>, NoOpts)

getCurrentUser ==
    Begin("getCurrentUser", << >>, getCurrentUserCall,
          getCurrentUserCall, getCurrentUserCall)

getCurrentUserSettle(reply) ==
    LET user == CatchNull(fetch(reply)) IN
    Settle("getCurrentUser", reply, user, user)

\* isConnected after its await of getCurrentUser
isConnectedResult(user) ==
    IF user.k # "resolved" THEN Async(user) ELSE Resolved(Bool(Truthy(user.v)))

isConnected ==
    Begin("isConnected", << >>, getCurrentUserCall,
          getCurrentUserCall, isConnectedResult(getCurrentUserCall))

isConnectedSettle(reply) ==
    LET user == CatchNull(fetch(reply)) IN
    Settle("isConnected", reply, user, isConnectedResult(user))

(***************************************************************************)
(* Graph traversal: single-request operations.                             *)
(***************************************************************************)
ToTokens(v) == IF v.t = "string" THEN v.s ELSE <<v.t>>

ComponentKeys ==
    {[forgeName |-> Str(<<"npm">>), hubExternalId |-> Str(<<"lodash/4.17.4">>)],
     [forgeName |-> Str(<<"maven">>), hubExternalId |-> Undefined]}

ExternalComponent(version) ==
    Obj([componentName |-> Str(<<"lodash">>), version |-> version])
ExternalComponents == {ExternalComponent(AbsUrl("versions/V1"))}

\* getExternalComponents after its await of get(...).catch(() => null)
getExternalComponentsResult(searched) ==
    IF searched.k # "resolved" THEN Async(searched)
    ELSE IF Truthy(searched.v) THEN Resolved(GetProp(searched.v, "items"))
    ELSE Resolved(Arr(<< >>))

getExternalComponents(keys) ==
    LET c == get(Path("api/components"),
                 <<<<"q", ToTokens(keys.forgeName) \o <<":">>
                            \o ToTokens(keys.hubExternalId)>>>>, NoOpts) IN
    Begin("getExternalComponents", <<keys>>, c, c,
          getExternalComponentsResult(c))

getExternalComponentsSettle(reply) ==
    LET searched == CatchNull(fetch(reply)) IN
    Settle("getExternalComponents", reply, searched,
           getExternalComponentsResult(searched))

Vulnerability(name, source) ==
    Obj([vulnerabilityName |-> Str(<<name>>), source |-> Str(<<source>>),
         severity |-> Str(<<"HIGH">>)])
Vulnerabilities ==
    {Vulnerability("CVE-2020-1", "NVD"), Vulnerability("CVE-2020-1", "VULNDB"),
     Vulnerability("CVE-2020-1", "OTHER")}

detailsUrl(vulnerability) ==
    LET source == GetProp(vulnerability, "source")
        name == ToTokens(GetProp(vulnerability, "vulnerabilityName")) IN
    IF source = Str(<<"NVD">>)
    THEN Str(<<"https://web.nvd.nist.gov/view/vuln/search-results?query=">>
             \o name \o <<"&search_type=all&cves=on">>)
    ELSE IF source = Str(<<"VULNDB">>)
    THEN Str(getOrigin.s \o <<"/#vulnerabilities/id:">> \o name
             \o <<"/view:overview">>)
    ELSE EmptyString

\* getComponentVulnerabilities after its await of getListRelation
getComponentVulnerabilitiesResult(list) ==
    IF list.k # "resolved" THEN Async(list)
    ELSE IF list.v.t # "array"
    THEN Rejected(TypeError(Str(<<"vulnerabilities.map is not a function">>)))
    ELSE Resolved(Arr([i \in 1..Len(list.v.a) |->
                 SetProp(list.v.a[i], "detailsUrl", detailsUrl(list.v.a[i]))]))

getComponentVulnerabilities(componentVersion) ==
    LET c == getRelationCall(componentVersion, "vulnerabilities") IN
    Begin("getComponentVulnerabilities", <<componentVersion>>, c, c,
          getComponentVulnerabilitiesResult(getListRelationResult(c)))

getComponentVulnerabilitiesSettle(reply) ==
    LET rel == getRelationSettled(fetch(reply)) IN
    Settle("getComponentVulnerabilities", reply, rel,
           getComponentVulnerabilitiesResult(getListRelationResult(rel)))

(***************************************************************************)
(* Graph traversal: fan-out operations.  The mapped promises are kept by   *)
(* input position in `slots`; their requests settle in any order.          *)
(***************************************************************************)
AnyPending(s) == \E i \in 1..Len(s) : s[i].k = "pending"

FirstRejected(s) ==
    s[CHOOSE i \in 1..Len(s) :
          /\ s[i].k = "rejected"
          /\ \A j \in 1..(i - 1) : s[j].k # "rejected"]

\* Promise.all(s): rejects with the first rejection, resolves with the
\* values by position once every promise has resolved
PromiseAll(s) ==
    IF \E i \in 1..Len(s) : s[i].k = "rejected" THEN FirstRejected(s)
    ELSE IF AnyPending(s) THEN Pending
    ELSE Resolved(Arr([i \in 1..Len(s) |-> s[i].v]))

\* the requests among the calls, in call order
RECURSIVE Issued(_)
Issued(calls) ==
    IF calls = << >> THEN << >>
    ELSE (IF Head(calls).k = "request" THEN <<Head(calls).v>> ELSE << >>)
             \o Issued(Tail(calls))

\* A fan-out starts: every mapped function has run up to its first await.
FanOut(calls, s, ended) ==
    /\ netlog' = netlog \o Issued(calls)
    /\ slots' = s
    /\ outcome' = ended
    /\ pc' = IF AnyPending(s) THEN "fanout" ELSE "done"

\* The request of position i settles with `reply`; the call's promise
\* keeps the way it ended if it has ended already.
FanIn(name, i, reply, under, slot, ended) ==
    /\ op.name = name
    /\ pc = "fanout"
    /\ i \in 1..Len(slots)
    /\ slots[i] = Pending
    /\ response' = reply
    /\ fetched' = fetch(reply)
    /\ slots' = [slots EXCEPT ![i] = slot]
    /\ outcome' = IF outcome.k # "pending" THEN outcome ELSE ended
    /\ pc' = IF AnyPending(slots') THEN "fanout" ELSE "done"
    /\ inner' = under
    /\ UNCHANGED <<hubOrigin, op, permission, netlog>>

BomComponent(name, version) ==
    Obj([componentName |-> Str(<<name>>),
         componentVersion |-> AbsUrl(version)])
BomComponents ==
    {BomComponent("lodash", "versions/V1"), BomComponent("lodash-es", "versions/V1"),
     BomComponent("lodash", "versions/V2")}

ProjectVersions ==
    {Resource("pv-1", Links("components", <<AbsUrl("pv-1/components")>>)),
     Resource("pv-2", NoLinks)}

BomReplies ==
    {NetErr, Response(FALSE, ErrorBody), Response(TRUE, ErrorBody)}
        \cup {Response(TRUE, Paged(l)) : l \in SeqsUpTo(BomComponents, MaxItems)}

\* Array.prototype.concat.apply([], componentArrays)
RECURSIVE Concat(_)
Concat(arrays) ==
    IF arrays = << >> THEN << >> ELSE Head(arrays).a \o Concat(Tail(arrays))

Flattened(all) ==
    IF all.k = "resolved" THEN Resolved(Arr(Concat(all.v.a))) ELSE all

Matches(version, bomComponent) ==
    GetProp(bomComponent, "componentVersion") = version

\* the function getMatchingBOMComponents maps, after its await
matchingOf(version, bomComponents) ==
    IF bomComponents.k # "resolved" THEN Async(bomComponents)
    ELSE IF bomComponents.v.t # "array"
    THEN Rejected(TypeError(Str(<<"bomComponents.filter is not a function">>)))
    ELSE Resolved(Arr(SelectSeq(bomComponents.v.a,
                                LAMBDA c : Matches(version, c))))

getMatchingBOMComponents(externalComponent, projectVersions) ==
    LET version == GetProp(externalComponent, "version")
        calls == [i \in 1..Len(projectVersions) |->
                     getRelationCall(projectVersions[i], "components")]
        lists == [i \in 1..Len(projectVersions) |->
                     IF calls[i].k = "request" THEN Pending
                     ELSE getListRelationResult(calls[i])]
        s == [i \in 1..Len(projectVersions) |->
                 IF calls[i].k = "request" THEN Pending
                 ELSE matchingOf(version, lists[i])]
    IN
    /\ Idle
    /\ op' = [name |-> "getMatchingBOMComponents",
              args |-> <<externalComponent, projectVersions>>]
    /\ FanOut(calls, s, Flattened(PromiseAll(s)))
    /\ inner' = lists
    /\ UNCHANGED <<hubOrigin, permission, response, fetched>>

getProjectVersionComponentsSettle(i, reply) ==
    LET version == GetProp(op.args[1], "version")
        list == getListRelationResult(getRelationSettled(fetch(reply)))
        slot == matchingOf(version, list)
    IN
    FanIn("getMatchingBOMComponents", i, reply,
          [inner EXCEPT ![i] = list], slot,
          Flattened(PromiseAll([slots EXCEPT ![i] = slot])))

Reference(projectName, projectVersionUrl) ==
    Obj([projectName |-> Str(<<projectName>>),
         projectVersionUrl |-> projectVersionUrl])
References ==
    {Reference("alpha", AbsUrl("pv/alpha")), Reference("beta", AbsUrl("pv/beta")),
     Reference("gamma", RelUrl("pv/gamma"))}

ReferencesReplies ==
    {NetErr, Response(FALSE, ErrorBody), Response(TRUE, ErrorBody)}
        \cup {Response(TRUE, Paged(l)) : l \in SeqsUpTo(References, MaxFanout)}

ProjectVersionBody == Obj([versionName |-> Str(<<"1.0">>)])
ProjectVersionReplies ==
    {NetErr, Response(FALSE, ErrorBody), Response(FALSE, Invalid),
     Response(TRUE, ProjectVersionBody), Response(TRUE, Num(1))}

\* getReferenceProjectVersion up to its await
getReferenceProjectVersionCall(reference) ==
    get(GetProp(reference, "projectVersionUrl"), << >>, NoOpts)

\* getReferenceProjectVersion after its await; class bodies are strict
\* code, where setting a property of a primitive throws
getReferenceProjectVersionResult(reference, got) ==
    LET projectVersion == CatchNull(got) IN
    IF projectVersion.k # "resolved" THEN Async(projectVersion)
    ELSE IF ~Truthy(projectVersion.v) THEN projectVersion
    ELSE IF projectVersion.v.t # "object"
    THEN Rejected(TypeError(Str(<<"Cannot create property 'projectName'">>)))
    ELSE Resolved(SetProp(projectVersion.v, "projectName",
                          GetProp(reference, "projectName")))

getComponentVersionReferenceProjects(componentVersion) ==
    LET c == getRelationCall(componentVersion, "references") IN
    Begin("getComponentVersionReferenceProjects", <<componentVersion>>, c,
          getListRelationResult(c), getListRelationResult(c))

\* getComponentVersionReferenceProjects after its await of the references
getComponentVersionReferencesSettle(reply) ==
    LET references == getListRelationResult(getRelationSettled(fetch(reply))) IN
    /\ op.name = "getComponentVersionReferenceProjects"
    /\ pc = "fetching"
    /\ response' = reply
    /\ fetched' = fetch(reply)
    /\ inner' = references
    /\ IF references.v.t # "array"
       THEN /\ outcome' =
                 Rejected(TypeError(Str(<<"references.map is not a function">>)))
            /\ pc' = "done"
            /\ UNCHANGED <<netlog, slots>>
       ELSE LET calls == [i \in 1..Len(references.v.a) |->
                             getReferenceProjectVersionCall(references.v.a[i])]
                s == [i \in 1..Len(references.v.a) |->
                         IF calls[i].k = "request" THEN Pending
                         ELSE Async(calls[i])]
            IN FanOut(calls, s, PromiseAll(s))
    /\ UNCHANGED <<hubOrigin, op, permission>>

getReferenceProjectVersionSettle(i, reply) ==
    LET slot == getReferenceProjectVersionResult(inner.v.a[i], fetch(reply)) IN
    FanIn("getComponentVersionReferenceProjects", i, reply, inner, slot,
          PromiseAll([slots EXCEPT ![i] = slot]))

Init ==
    /\ hubOrigin \in Origins
    /\ op = [name |-> "none", args |-> << >>]
    /\ pc = "idle"
    /\ permission = "none"
    /\ netlog = << >>
    /\ response = NoReply
    /\ fetched = Pending
    /\ inner = Pending
    /\ slots = << >>
    /\ outcome = Pending

Next ==
    \/ \E l \in LinkChoices("risk-profile") :
          getRelation(Resource("componentVersion", l), "risk-profile")
    \/ \E r \in RepliesWith(ObjectBodies(RiskProfile)) : getRelationSettle(r)
    \/ \E l \in LinkChoices("policy-rules") :
          getListRelation(Resource("bomComponent", l), "policy-rules")
    \/ \E r \in RepliesWith(ListBodies(PolicyRules)) : getListRelationSettle(r)
    \/ \E c \in Credentials : login(c.username, c.password)
    \/ \E granted \in BOOLEAN : loginAfterPermission(granted)
    \/ \E r \in RepliesWith(ObjectBodies(CurrentUser)) : loginSettle(r)
    \/ logout
    \/ \E r \in RepliesWith(ObjectBodies(CurrentUser)) : logoutSettle(r)
    \/ getCurrentUser
    \/ \E r \in RepliesWith(ObjectBodies(CurrentUser)) : getCurrentUserSettle(r)
    \/ isConnected
    \/ \E r \in RepliesWith(ObjectBodies(CurrentUser)) : isConnectedSettle(r)
    \/ \E k \in ComponentKeys : getExternalComponents(k)
    \/ \E r \in RepliesWith(ListBodies(ExternalComponents)) :
          getExternalComponentsSettle(r)
    \/ \E l \in LinkChoices("vulnerabilities") :
          getComponentVulnerabilities(Resource("componentVersion", l))
    \/ \E r \in RepliesWith(ListBodies(Vulnerabilities)) :
          getComponentVulnerabilitiesSettle(r)
    \/ \E pvs \in SeqsUpTo(ProjectVersions, MaxFanout) :
          \E c \in ExternalComponents : getMatchingBOMComponents(c, pvs)
    \/ \E i \in 1..MaxFanout, r \in BomReplies :
          getProjectVersionComponentsSettle(i, r)
    \/ \E l \in LinkChoices("references") :
          getComponentVersionReferenceProjects(Resource("componentVersion", l))
    \/ \E r \in ReferencesReplies : getComponentVersionReferencesSettle(r)
    \/ \E i \in 1..MaxFanout, r \in ProjectVersionReplies :
          getReferenceProjectVersionSettle(i, r)

Spec == Init /\ [][Next]_vars

(***************************************************************************)
(* Properties.                                                             *)
(***************************************************************************)
Called(name) == op.name = name
Ended == outcome.k # "pending"

\* the request of a single-request call failed: it could not be built, or
\* its Hub.fetch rejected
RequestFailed == Ended /\ (netlog = << >> \/ fetched.k = "rejected")

\* C1: for a relation absent from the resource's links, getRelation returns
\* null and issues no request at any point of the call.
C1_AbsentRelationReturnsNull ==
    (Called("getRelation") /\ ~HasRelation(op.args[1], op.args[2]))
        => /\ netlog = << >>
           /\ Ended => outcome = Resolved(Null)

\* C2: for a relation that is present, whenever the underlying GET fails
\* (network error, non-ok status, undecodable error body, request URL that
\* cannot be built) getRelation returns null and does not raise.
C2_FailedGetReturnsNull ==
    (Called("getRelation") /\ HasRelation(op.args[1], op.args[2])
        /\ RequestFailed)
        => outcome = Resolved(Null)

\* C3 as stated: getListRelation returns the empty sequence exactly when
\* getRelation returns null, and the items of every non-null result.
C3_EmptyExactlyWhenNull ==
    (Called("getListRelation") /\ Ended /\ inner.k = "resolved")
        => /\ outcome.k = "resolved"
           /\ (outcome.v = Arr(<< >>)) <=> (inner.v = Null)
           /\ inner.v # Null => outcome.v = GetProp(inner.v, "items")

\* C3 amended: getListRelation returns the empty sequence whenever
\* getRelation returns null or another falsy value, and for every truthy
\* result the result's items field unchanged (which may itself be empty).
C3_EmptyWhenNullElseItems ==
    (Called("getListRelation") /\ Ended /\ inner.k = "resolved")
        => /\ outcome.k = "resolved"
           /\ inner.v = Null => outcome.v = Arr(<< >>)
           /\ ~Truthy(inner.v) => outcome.v = Arr(<< >>)
           /\ Truthy(inner.v) => outcome.v = GetProp(inner.v, "items")

C3_Witness ==
    /\ Called("getListRelation")
    /\ fetched.k = "rejected"
    /\ inner = Resolved(Null)
    /\ outcome = Resolved(Arr(<< >>))

\* C4: with the stored origin unset or empty, login fails with the
\* configuration error, and neither the permission check nor any request is
\* issued, before or after the failure.
C4_LoginWithoutOriginFailsFast ==
    (Called("login") /\ hubOrigin \in {Undefined, EmptyString})
        => /\ outcome = Rejected(Error(Str(<<"No Hub origin saved">>)))
           /\ permission = "none"
           /\ netlog = << >>

C4_Witness ==
    /\ Called("login")
    /\ hubOrigin = Undefined
    /\ pc = "done"
    /\ outcome.k = "rejected"

\* C5: in a login with a configured origin, the POST to the security-check
\* path is issued only after the permission check has succeeded; when the
\* permission check fails, login fails with that failure and issues no POST.
C5_PermissionBeforePost ==
    (Called("login") /\ Truthy(hubOrigin))
        => /\ permission # "none"
           /\ netlog # << >> =>
                 /\ permission = "granted"
                 /\ Len(netlog) = 1
                 /\ netlog[1].method = "POST"
                 /\ netlog[1].url.pathname = <<"/", "j_spring_security_check">>
           /\ permission = "denied" =>
                 /\ outcome = Rejected(PermissionDenied)
                 /\ netlog = << >>
           /\ permission = "pending" => ~Ended

C5_Witness ==
    /\ Called("login")
    /\ permission = "granted"
    /\ Len(netlog) = 1
    /\ outcome.k = "resolved"

\* the TypeError of reading body.errorMessage of a null body
DecodeFailure ==
    TypeError(Str(<<"Cannot read property 'errorMessage' of null">>))

Answered == response # NoReply /\ response # NetErr

\* C8 as stated: on a failure status the request raises an error carrying
\* the body's error message field, or the decode-failure indicator when the
\* body is not JSON; on a success status it returns the decoded body, null
\* when the body is not JSON.
C8_RequestOutcome ==
    Answered
        => /\ ~response.ok =>
                 /\ fetched.k = "rejected"
                 /\ fetched.v = IF response.body = Invalid THEN DecodeFailure
                                ELSE NewError(GetProp(response.body, "errorMessage"))
           /\ response.ok =>
                 fetched = Resolved(IF response.body = Invalid THEN Null
                                    ELSE response.body)

\* C8 amended: as stated, except that on a failure status the
\* decode-failure indicator is raised whenever the decoded body is null,
\* which is the case for a body that is not JSON and for the JSON literal
\* null alike.
C8_RequestOutcomeNullBody ==
    Answered
        => /\ ~response.ok =>
                 /\ fetched.k = "rejected"
                 /\ fetched.v = IF response.body \in {Invalid, Null}
                                THEN DecodeFailure
                                ELSE NewError(GetProp(response.body, "errorMessage"))
           /\ response.ok =>
                 fetched = Resolved(IF response.body = Invalid THEN Null
                                    ELSE response.body)

C8_Witness ==
    /\ response = Response(TRUE, Invalid)
    /\ fetched = Resolved(Null)
    /\ Called("logout")
    /\ outcome = Resolved(Null)

\* C9: getCurrentUser and getExternalComponents never propagate a failure,
\* also when the request cannot be built because the origin is unset:
\* getCurrentUser yields null, isConnected false (true only for a query that
\* succeeds with a non-empty body), getExternalComponents the empty sequence.
C9_SoftFailures ==
    /\ (Called("getCurrentUser") /\ RequestFailed) => outcome = Resolved(Null)
    /\ (Called("isConnected") /\ Ended) =>
          outcome = Resolved(Bool(/\ netlog # << >>
                                  /\ fetched.k = "resolved"
                                  /\ Truthy(fetched.v)))
    /\ (Called("getExternalComponents") /\ RequestFailed) =>
          outcome = Resolved(Arr(<< >>))

\* the components list fetched for position i; none when its fetch failed
BomOf(i) ==
    IF inner[i].k = "resolved" /\ inner[i].v.t = "array"
    THEN inner[i].v.a ELSE << >>

RECURSIVE MatchesUpTo(_)
MatchesUpTo(n) ==
    IF n = 0 THEN << >>
    ELSE MatchesUpTo(n - 1)
             \o SelectSeq(BomOf(n),
                    LAMBDA c : c.f.componentVersion = op.args[1].f.version)

\* C6: whatever the order in which the components fetches complete,
\* getMatchingBOMComponents returns exactly the entries whose
\* componentVersion is the external component's version, those of an
\* earlier project version first, each project version's in fetched order.
C6_MatchesInInputOrder ==
    (Called("getMatchingBOMComponents") /\ pc = "done")
        => outcome = Resolved(Arr(MatchesUpTo(Len(inner))))

\* the references the relation list delivered; none when it failed
ReferencesOf ==
    IF inner.k = "resolved" /\ inner.v.t = "array" THEN inner.v.a ELSE << >>

\* C7: getComponentVersionReferenceProjects returns one element per
\* reference, in the references' order: the fetched project version with
\* the reference's projectName, or null when its fetch failed; a failing
\* fetch never fails the operation.
C7_OnePerReference ==
    (Called("getComponentVersionReferenceProjects") /\ pc = "done")
        => /\ outcome.k = "resolved"
           /\ Len(outcome.v.a) = Len(ReferencesOf)
           /\ \A i \in 1..Len(ReferencesOf) :
                 \/ outcome.v.a[i] = Null
                 \/ /\ outcome.v.a[i].t = "object"
                    /\ outcome.v.a[i].f.projectName
                           = ReferencesOf[i].f.projectName

\* the items of the vulnerabilities relation list; none when it failed
VulnerabilitiesOf ==
    IF inner.k = "resolved" /\ Truthy(inner.v)
           /\ GetProp(inner.v, "items").t = "array"
    THEN inner.v.f.items.a ELSE << >>

ExpectedDetailsUrl(v) ==
    CASE v.f.source.s = <<"NVD">> ->
             Str(<<"https://web.nvd.nist.gov/view/vuln/search-results?query=">>
                     \o v.f.vulnerabilityName.s \o <<"&search_type=all&cves=on">>)
      [] v.f.source.s = <<"VULNDB">> ->
             Str(getOrigin.s \o <<"/#vulnerabilities/id:">>
                     \o v.f.vulnerabilityName.s \o <<"/view:overview">>)
      [] OTHER -> EmptyString

\* C10: getComponentVulnerabilities returns one entry per item of the
\* vulnerabilities relation list, in order, each with the detailsUrl of its
\* source (NVD search URL, origin path for VULNDB, empty otherwise) and its
\* other fields unchanged.
C10_DetailsUrlBySource ==
    (Called("getComponentVulnerabilities") /\ Ended)
        => /\ outcome.k = "resolved"
           /\ outcome.v.t = "array"
           /\ Len(outcome.v.a) = Len(VulnerabilitiesOf)
           /\ \A i \in 1..Len(VulnerabilitiesOf) :
                 /\ outcome.v.a[i].f.detailsUrl
                        = ExpectedDetailsUrl(VulnerabilitiesOf[i])
                 /\ \A key \in DOMAIN VulnerabilitiesOf[i].f :
                        outcome.v.a[i].f[key] = VulnerabilitiesOf[i].f[key]
====
